---------------------------- MODULE Spec2Model ----------------------------
(***************************************************************************)
(* A model of qp: the reference resolver (utils.py), the command tree      *)
(* synthesizer and the parameter schema inference (cli.py), and one        *)
(* invocation of review, issue or pr with its git and gh processes and     *)
(* the render call (cli.py, utils.py).                                     *)
(*                                                                         *)
(* Python strings are TLA+ strings; the string methods the code calls      *)
(* (strip, lstrip, startswith, split, isdigit, urlparse) are operators     *)
(* that compute what the method computes, character by character.          *)
(***************************************************************************)
EXTENDS Integers, Sequences, FiniteSets, TLC

VARIABLES
    stage,          \* which call the program is at
    reference,      \* parse_*_reference: the reference argument of the call
    default_repo,   \* parse_*_reference: the fallback repository argument of the call
    result,         \* what the last parse_*_reference call returned or raised
    resolver,       \* which resolver that call was: "pr", "issue", or "none" yet
    directory,      \* build_cli: the prompts directory tree it found on disk
    app,            \* the root typer.Typer: registered groups and commands
    has_entries,    \* what build_cli(app, PROMPTS_DIR) returned
    raw_params,     \* load_prompt_metadata: the params mapping of the front matter it read
    metadata,       \* what load_prompt_metadata returned
    invoked,        \* the command of this invocation: review, issue, pr, or a direct render
    args,           \* its arguments: reference, repo, to, output, issue
    pc,             \* the statement the invocation is at
    completed,      \* the last subprocess.run: its command and return code
    base_branch,    \* _collect_git_log: what _determine_base_branch returned ("" for None)
    candidate,      \* _determine_base_branch: position of the loop over branch names
    git_ref,        \* _git_ref_exists: its argument ref
    candidates,     \* _collect_git_log: the git log commands to try
    log_command,    \* _collect_git_log: position of the loop variable command in candidates
    rendered,       \* render_prompt_template: the rendered text, once there is one
    stdout,         \* what typer.echo wrote to stdout
    clipboard,      \* what copy_to_clipboard put on the clipboard
    file,           \* what write_text wrote to the output file
    stderr,         \* the messages written with err=True
    raised,         \* the exception that ended the invocation, "" if none
    exit_code       \* the exit code of the process, -1 while it runs

vars == <<stage, reference, default_repo, result, resolver, directory, app,
          has_entries, raw_params, metadata, invoked, args, pc, completed,
          base_branch, candidate, git_ref, candidates, log_command, rendered,
          stdout, clipboard, file, stderr, raised, exit_code>>

refVars  == <<reference, default_repo, result, resolver>>
treeVars == <<directory, app, has_entries>>
prmVars  == <<raw_params, metadata>>
gitVars  == <<completed, base_branch, candidate, git_ref, candidates, log_command>>
outVars  == <<rendered, stdout, clipboard, file>>
endVars  == <<stderr, raised, exit_code>>
runVars  == <<invoked, args, pc, gitVars, outVars, endVars>>

\* no command has been invoked yet
NotInvoked ==
    /\ invoked = "none"
    /\ args = [reference |-> "", repo |-> "", to |-> "", output |-> "", issue |-> ""]
    /\ pc = "start"
    /\ completed = [args |-> "", returncode |-> 0]
    /\ base_branch = ""
    /\ candidate = 0
    /\ git_ref = ""
    /\ candidates = <<>>
    /\ log_command = 0
    /\ rendered = <<>>
    /\ stdout = <<>>
    /\ clipboard = <<>>
    /\ file = <<>>
    /\ stderr = <<>>
    /\ raised = ""
    /\ exit_code = -1

-----------------------------------------------------------------------------
(* Bounds of the model. *)

\* longest non-URL reference, in characters
MaxChars == 4
\* most path chunks in front of the marker position of a URL reference
MaxLead == 3

-----------------------------------------------------------------------------
(* Python str methods. *)

Char(s, i) == SubSeq(s, i, i)

\* str.strip() / str.lstrip() without arguments strip whitespace
Whitespace == {" ", "\t", "\n"}
Digits == {"0", "1", "2", "3", "4", "5", "6", "7", "8", "9"}

\* s.startswith(p)
startswith(s, p) == Len(s) >= Len(p) /\ SubSeq(s, 1, Len(p)) = p

\* s.lstrip(chars): drop leading characters that are in chars
RECURSIVE lstrip(_, _)
lstrip(s, chars) ==
    IF Len(s) > 0 /\ Char(s, 1) \in chars
    THEN lstrip(SubSeq(s, 2, Len(s)), chars)
    ELSE s

\* s.rstrip(chars): drop trailing characters that are in chars
RECURSIVE rstrip(_, _)
rstrip(s, chars) ==
    IF Len(s) > 0 /\ Char(s, Len(s)) \in chars
    THEN rstrip(SubSeq(s, 1, Len(s) - 1), chars)
    ELSE s

\* s.strip(chars)
strip(s, chars) == rstrip(lstrip(s, chars), chars)

\* s.find(c, start) for a one-character c, 1-based; 0 when c is not found
RECURSIVE find(_, _, _)
find(s, c, start) ==
    IF start > Len(s) THEN 0
    ELSE IF Char(s, start) = c THEN start
    ELSE find(s, c, start + 1)

\* c in s
contains(s, c) == find(s, c, 1) # 0

\* s.split(c): every piece between occurrences of c, empty pieces included
RECURSIVE split(_, _)
split(s, c) ==
    LET i == find(s, c, 1) IN
    IF i = 0 THEN <<s>>
    ELSE <<SubSeq(s, 1, i - 1)>> \o split(SubSeq(s, i + 1, Len(s)), c)

\* s.split(c, 1): at most one split, at the first c
split1(s, c) ==
    LET i == find(s, c, 1) IN
    IF i = 0 THEN <<s>>
    ELSE <<SubSeq(s, 1, i - 1), SubSeq(s, i + 1, Len(s))>>

\* s.isdigit(): non-empty and every character a decimal digit
isdigit(s) == Len(s) > 0 /\ \A i \in 1..Len(s) : Char(s, i) \in Digits

\* c.join(parts)
RECURSIVE join(_, _)
join(c, parts) ==
    IF Len(parts) = 0 THEN ""
    ELSE IF Len(parts) = 1 THEN parts[1]
    ELSE parts[1] \o c \o join(c, Tail(parts))

\* [x for x in parts if x]
SelectNonEmpty(parts) == SelectSeq(parts, LAMBDA x : x # "")

-----------------------------------------------------------------------------
(* urllib.parse.urlparse(value), for a value that starts with http:// or  *)
(* https://: the network location runs from after "//" to the first of    *)
(* "/", "?", "#"; an unbalanced bracket in it raises ValueError; the path  *)
(* is what follows, cut at the first "#", then at the first "?", then at   *)
(* the first ";" of its last segment.                                      *)

\* the smallest positive of the positions, 0 when none is positive
MinPos(S) ==
    LET P == {x \in S : x > 0} IN
    IF P = {} THEN 0 ELSE CHOOSE x \in P : \A y \in P : x <= y

\* s cut before its first c
Before(s, c) ==
    LET i == find(s, c, 1) IN IF i = 0 THEN s ELSE SubSeq(s, 1, i - 1)

\* the text after "scheme:" of an http(s) URL
AfterScheme(value) == SubSeq(value, find(value, ":", 1) + 1, Len(value))

urlparse(value) ==
    LET rest   == SubSeq(AfterScheme(value), 3, Len(AfterScheme(value)))
        delim  == MinPos({find(rest, "/", 1), find(rest, "?", 1), find(rest, "#", 1)})
        netloc == IF delim = 0 THEN rest ELSE SubSeq(rest, 1, delim - 1)
        url    == IF delim = 0 THEN "" ELSE SubSeq(rest, delim, Len(rest))
        noq    == Before(Before(url, "#"), "?")
        segs   == split(noq, "/")
        last   == segs[Len(segs)]
        path   == SubSeq(noq, 1, Len(noq) - Len(last)) \o Before(last, ";")
    IN  IF contains(netloc, "[") # contains(netloc, "]")
        THEN [error |-> TRUE, netloc |-> netloc, path |-> ""]
        ELSE [error |-> FALSE, netloc |-> netloc, path |-> path]

-----------------------------------------------------------------------------
(* The reference resolver. *)

PullRequestReference(repo, number) ==
    [cls |-> "PullRequestReference", repo |-> repo, number |-> number, message |-> ""]

IssueReference(repo, number) ==
    [cls |-> "IssueReference", repo |-> repo, number |-> number, message |-> ""]

\* raise typer.BadParameter(message, param_hint=...)
BadParameter(message) ==
    [cls |-> "BadParameter", repo |-> "", number |-> "", message |-> message]

\* the ValueError urlparse raises, which no handler catches
ValueError == [cls |-> "ValueError", repo |-> "", number |-> "", message |-> "Invalid IPv6 URL"]

\* a rule that does not apply falls through to the next one
NoMatch == [cls |-> "NoMatch", repo |-> "", number |-> "", message |-> ""]

\* the result of no call yet
NoResult == [cls |-> "NoResult", repo |-> "", number |-> "", message |-> ""]

MkRef(kind, repo, number) ==
    IF kind = "pr" THEN PullRequestReference(repo, number)
    ELSE IssueReference(repo, number)

\* segments[-2] in {...}
Markers(kind) == IF kind = "pr" THEN {"pull", "pulls"} ELSE {"issues", "issue"}

IsUrl(value) == startswith(value, "http://") \/ startswith(value, "https://")

\* the path segments of the URL: parsed.path.strip("/").split("/"), non-empty ones
Segments(path) == SelectNonEmpty(split(strip(path, {"/"}), "/"))

\* if value.startswith("http://") or value.startswith("https://"): ...
UrlRule(kind, value, repo0) ==
    IF ~IsUrl(value) THEN NoMatch
    ELSE LET parsed == urlparse(value) IN
         IF parsed.error THEN ValueError
         ELSE LET segments == Segments(parsed.path)
                  n == Len(segments)
              IN  IF n >= 4 /\ segments[n - 1] \in Markers(kind)
                  THEN MkRef(kind, join("/", SubSeq(segments, 1, 2)), segments[n])
                  ELSE BadParameter("url")

\* HashRule without the fallback for a left part that has no "/"
HashRule_KeepPartialRepo(kind, value, repo0) ==
    IF ~contains(value, "#") THEN NoMatch
    ELSE LET parts    == split1(value, "#")
             stripped == strip(parts[1], Whitespace)
             repo     == IF stripped # "" THEN stripped ELSE repo0
             number   == lstrip(strip(parts[2], Whitespace), {"#"})
         IN  IF number = "" THEN BadParameter("missing number")
             ELSE MkRef(kind, repo, number)

\* if "#" in value: ...
HashRule(kind, value, repo0) ==
    IF ~contains(value, "#") THEN NoMatch
    ELSE LET parts       == split1(value, "#")
             repo_part   == parts[1]
             number_part == parts[2]
             stripped    == strip(repo_part, Whitespace)
             repo1       == IF stripped # "" THEN stripped ELSE repo0
             repo        == IF ~contains(repo1, "/") THEN repo0 ELSE repo1
             number      == lstrip(strip(number_part, Whitespace), {"#"})
         IN  IF number = "" THEN BadParameter("missing number")
             ELSE MkRef(kind, repo, number)

\* digits = value.lstrip("#"); if digits.isdigit(): ...
BareRule(kind, value, repo0) ==
    LET digits == lstrip(value, {"#"}) IN
    IF isdigit(digits) THEN MkRef(kind, repo0, digits) ELSE NoMatch

ApplyRule(rule, kind, value, repo0) ==
    CASE rule = "url"  -> UrlRule(kind, value, repo0)
      [] rule = "hash" -> HashRule(kind, value, repo0)
      [] rule = "bare" -> BareRule(kind, value, repo0)

\* the if-chain: the first rule, in the given order, that applies decides
RECURSIVE FirstMatch(_, _, _, _)
FirstMatch(order, kind, value, repo0) ==
    IF Len(order) = 0 THEN BadParameter("shapes")
    ELSE LET r == ApplyRule(Head(order), kind, value, repo0) IN
         IF r # NoMatch THEN r ELSE FirstMatch(Tail(order), kind, value, repo0)

\* the body of parse_pr_reference / parse_issue_reference with its rules
\* tried in the given order
ParseInOrder(order, kind, ref, repo0) ==
    LET value == strip(ref, Whitespace) IN
    IF value = "" THEN BadParameter("empty")
    ELSE FirstMatch(order, kind, value, repo0)

\* the rules with the "#" test moved in front of the scheme test
RuleOrder_HashFirst == <<"hash", "url", "bare">>

\* the order in which the code tries its rules
RuleOrder == <<"url", "hash", "bare">>

parse_pr_reference(ref, repo0) == ParseInOrder(RuleOrder, "pr", ref, repo0)

parse_issue_reference(ref, repo0) == ParseInOrder(RuleOrder, "issue", ref, repo0)

IsReference(r) == r.cls \in {"PullRequestReference", "IssueReference"}

-----------------------------------------------------------------------------
(* The references and fallback repositories the resolver is called with.   *)

\* the pieces of f, in order, as one string
RECURSIVE Concat(_)
Concat(f) == IF Len(f) = 0 THEN "" ELSE Head(f) \o Concat(Tail(f))

\* references without a scheme: every string over these characters
PlainChars == {"#", "/", "7", "a", " "}

\* references with a scheme: scheme and host, leading path chunks, the chunk
\* at the marker position, the last chunk, and what follows the path
UrlHeads == {"https://h", "http://h", "https://", "https://[", " https://h"}
LeadChunks == {"/a", "/"}
MarkChunks == {"", "/pull", "/pulls", "/issue", "/issues", "/a"}
LastChunks == {"", "/7", "/a", "/7/"}
UrlTails == {"", "?7", "#7", " "}

\* the references the specification's examples use
ExampleReferences ==
    {"123", "acme/widgets#45", "https://github.com/acme/widgets/pull/99",
     "https://github.com/acme/widgets/issues/99",
     "https://example.com/not/a/valid/path", "", "   ", "word"}

\* the reference is one of the three families
IsInput(ref) ==
    \/ \E n \in 0..MaxChars : \E f \in [1..n -> PlainChars] : ref = Concat(f)
    \/ \E h \in UrlHeads, m \in MarkChunks, z \in LastChunks, t \in UrlTails :
         \E n \in 0..MaxLead : \E l \in [1..n -> LeadChunks] :
             ref = h \o Concat(l) \o m \o z \o t
    \/ ref \in ExampleReferences

Repos == {"acme/widgets", "widgets"}

-----------------------------------------------------------------------------
(* Resolver calls. *)

InitRef ==
    /\ NotInvoked
    /\ stage = "resolve"
    /\ reference = ""
    /\ default_repo = ""
    /\ result = NoResult
    /\ resolver = "none"
    /\ directory = [exists |-> FALSE, entries |-> {}]
    /\ app = [groups |-> <<>>, commands |-> <<>>, callback |-> FALSE]
    /\ has_entries = FALSE
    /\ raw_params = <<>>
    /\ metadata = [description |-> [t |-> "NoneType", v |-> "None", items |-> <<>>],
                   params |-> <<>>]

\* pr_ref = parse_pr_reference(pr, repo)
ParsePrReference ==
    /\ stage = "resolve"
    /\ resolver = "none"
    /\ IsInput(reference')
    /\ default_repo' \in Repos
    /\ result' = parse_pr_reference(reference', default_repo')
    /\ resolver' = "pr"
    /\ UNCHANGED <<runVars, stage, treeVars, prmVars>>

\* issue_ref = parse_issue_reference(issue, repo)
ParseIssueReference ==
    /\ stage = "resolve"
    /\ resolver = "none"
    /\ IsInput(reference')
    /\ default_repo' \in Repos
    /\ result' = parse_issue_reference(reference', default_repo')
    /\ resolver' = "issue"
    /\ UNCHANGED <<runVars, stage, treeVars, prmVars>>

NextRef == ParsePrReference \/ ParseIssueReference

SpecRef == InitRef /\ [][NextRef]_vars

-----------------------------------------------------------------------------
(* Python values of the front matter: a type name, the value's repr, and   *)
(* for a dict its items in order.                                          *)

Py(type, repr) == [t |-> type, v |-> repr, items |-> <<>>]
PyDict(items) == [t |-> "dict", v |-> "{}", items |-> items]
Item(key, val) == [k |-> key, val |-> val]

None == Py("NoneType", "None")
True == Py("bool", "True")
False == Py("bool", "False")
\* the ... of typer.Option(..., **option_kwargs)
Ellipsis == Py("ellipsis", "...")

\* key in d
HasKey(d, key) == \E i \in 1..Len(d.items) : d.items[i].k = key

\* d.get(key, default)
get(d, key, default) ==
    IF HasKey(d, key)
    THEN d.items[CHOOSE i \in 1..Len(d.items) : d.items[i].k = key].val
    ELSE default

\* the truth value of x: bool(x), and the test of `x or y` and `if x:`
truthy(x) ==
    CASE x.t = "NoneType" -> FALSE
      [] x.t = "bool"     -> x.v = "True"
      [] x.t = "int"      -> x.v # "0"
      [] x.t = "float"    -> x.v # "0.0"
      [] x.t = "str"      -> x.v # ""
      [] x.t = "list"     -> x.v # "[]"
      [] x.t = "dict"     -> Len(x.items) > 0
      [] OTHER            -> TRUE

\* bool(x)
bool(x) == IF truthy(x) THEN True ELSE False

\* x or y
or(x, y) == IF truthy(x) THEN x ELSE y

\* s.replace(old, new) for one-character old and new
RECURSIVE replace(_, _, _)
replace(s, old, new) ==
    IF Len(s) = 0 THEN s
    ELSE (IF Char(s, 1) = old THEN new ELSE Char(s, 1))
         \o replace(SubSeq(s, 2, Len(s)), old, new)

-----------------------------------------------------------------------------
(* Metadata loading and parameter schema inference. *)

\* the body of the loop of load_prompt_metadata for one declared parameter
ParsedParam(param_name, param_value) ==
    IF param_value.t = "dict"
    THEN LET got == get(param_value, "value", get(param_value, "default", None))
             help_text == or(get(param_value, "description", None),
                             get(param_value, "help", None))
             default_value ==
                 IF /\ got = None
                    /\ ~HasKey(param_value, "value")
                    /\ ~HasKey(param_value, "default")
                 THEN param_value
                 ELSE got
         IN  [name |-> param_name, default |-> default_value, help |-> help_text]
    ELSE [name |-> param_name, default |-> param_value, help |-> None]

\* load_prompt_metadata(file_path) for a front matter with these params (a
\* sequence of [name, value] in the order the file declares them)
load_prompt_metadata(raw) ==
    [description |-> None,
     params |-> [i \in 1..Len(raw) |-> ParsedParam(raw[i].name, raw[i].value)]]

\* infer_param_type with the int test in front of the bool test
infer_param_type_IntFirst(value) ==
    IF value.t \in {"bool", "int"} THEN "int"
    ELSE IF value.t = "bool" THEN "bool"
    ELSE IF value.t = "float" THEN "float"
    ELSE "str"

\* infer_param_type(value); isinstance(value, int) holds of a bool as well
infer_param_type(value) ==
    IF value.t = "bool" THEN "bool"
    ELSE IF value.t \in {"bool", "int"} THEN "int"
    ELSE IF value.t = "float" THEN "float"
    ELSE "str"

\* is_required = annotation is not bool and (default_value is None or
\*               default_value == "" or default_value == [])
is_required(annotation, default_value) ==
    /\ annotation # "bool"
    /\ \/ default_value = None
       \/ default_value = Py("str", "")
       \/ default_value = Py("list", "[]")

\* the body of the loop of register_prompt_command for one parameter: the
\* inspect.Parameter with its typer.Option default
OptionOf(param_info) ==
    LET python_name   == replace(param_info.name, "-", "_")
        default_value == param_info.default
        help_text     == param_info.help
        annotation    == infer_param_type(default_value)
        required      == is_required(annotation, default_value)
    IN  [name         |-> python_name,
         alias        |-> param_info.name,
         annotation   |-> annotation,
         default      |-> IF required THEN Ellipsis
                          ELSE IF annotation = "bool" THEN bool(default_value)
                          ELSE default_value,
         help         |-> IF truthy(help_text) THEN help_text ELSE None,
         show_default |-> ~required /\ annotation # "bool"]

\* signature_parameters of register_prompt_command
signature_parameters(meta) ==
    [i \in 1..Len(meta.params) |-> OptionOf(meta.params[i])]

-----------------------------------------------------------------------------
(* The command tree synthesizer. *)

TEMPLATE_SUFFIX == ".md.jinja"
RESERVED_PROMPTS == {"review"}

\* s.endswith(p)
endswith(s, p) == Len(s) >= Len(p) /\ SubSeq(s, Len(s) - Len(p) + 1, Len(s)) = p

\* a typer.Typer(): its registered groups and commands, in registration
\* order, and whether it has a callback that runs without a sub-command
Typer == [groups |-> <<>>, commands |-> <<>>, callback |-> FALSE]

\* review_app = typer.Typer(help=..., invoke_without_command=True), with the
\* review callback registered on it
review_app == [groups |-> <<>>, commands |-> <<>>, callback |-> TRUE]

\* parent.add_typer(sub_app, name=name)
add_typer(parent, sub_app, name) ==
    [parent EXCEPT !.groups = Append(@, [name |-> name, typer |-> sub_app])]

\* parent.command(name=command_name, help=description)(prompt_cmd): the
\* command keeps the path of the prompt file it renders and its options
command(parent, command_name, file_path, options) ==
    [parent EXCEPT !.commands =
        Append(@, [name |-> command_name, file |-> file_path, options |-> options])]

\* directory entries: a name, a kind, and for a directory its own entries
File(name) == [name |-> name, kind |-> "file", children |-> {}]
Dir(name, entries) == [name |-> name, kind |-> "dir", children |-> entries]

\* the entry names of the model, in the order sorted() puts them
NameOrder ==
    <<".h.md.jinja", "a", "a.md.jinja", "issue.md.jinja", "n.txt", "review.md.jinja">>

Rank(name) == CHOOSE i \in 1..Len(NameOrder) : NameOrder[i] = name

\* sorted(directory.iterdir())
RECURSIVE Sorted(_)
Sorted(entries) ==
    IF entries = {} THEN <<>>
    ELSE LET first == CHOOSE e \in entries :
                          \A f \in entries : Rank(e.name) <= Rank(f.name)
         IN  <<first>> \o Sorted(entries \ {first})

\* load_prompt_metadata(path) of a prompt file without front matter
EmptyMetadata == load_prompt_metadata(<<>>)

\* register_prompt_command(parent, command_name, file_path, metadata)
register_prompt_command(parent, command_name, file_path, meta) ==
    command(parent, command_name, file_path, signature_parameters(meta))

\* sub_app attached whether or not anything was registered below it
Attach_Always(acc, sub, name) ==
    [app |-> add_typer(acc.app, sub.app, name), has_entries |-> TRUE]

\* if build_cli(sub_app, path): parent.add_typer(sub_app, name=path.name);
\* has_entries = True
Attach(acc, sub, name) ==
    IF sub.has_entries
    THEN [app |-> add_typer(acc.app, sub.app, name), has_entries |-> TRUE]
    ELSE acc

\* the prompt registered without the test for a reserved name
Register_ReservedToo(acc, command_name, file_path) ==
    [app |-> register_prompt_command(acc.app, command_name, file_path, EmptyMetadata),
     has_entries |-> TRUE]

\* if command_name in RESERVED_PROMPTS: continue; otherwise load the metadata,
\* register the command; has_entries = True
Register(acc, command_name, file_path) ==
    IF command_name \in RESERVED_PROMPTS THEN acc
    ELSE [app |-> register_prompt_command(acc.app, command_name, file_path, EmptyMetadata),
          has_entries |-> TRUE]

RECURSIVE build_cli(_, _, _, _)
RECURSIVE Walk(_, _, _)

\* the loop of build_cli over the sorted paths; acc is [app, has_entries] so
\* far, here the path of the directory being walked
Walk(acc, paths, here) ==
    IF Len(paths) = 0 THEN acc
    ELSE
      LET path == Head(paths)
          rest == Tail(paths)
      IN
      IF startswith(path.name, ".") THEN Walk(acc, rest, here)
      ELSE IF path.kind = "dir" THEN
          LET sub == build_cli(Typer, TRUE, path.children, Append(here, path.name)) IN
          Walk(Attach(acc, sub, path.name), rest, here)
      ELSE IF path.kind = "file" /\ endswith(path.name, TEMPLATE_SUFFIX) THEN
          LET command_name == SubSeq(path.name, 1, Len(path.name) - Len(TEMPLATE_SUFFIX)) IN
          Walk(Register(acc, command_name, Append(here, path.name)), rest, here)
      ELSE Walk(acc, rest, here)

\* build_cli(parent, directory): the parent with what was attached, and the
\* returned flag
build_cli(parent, exists, entries, here) ==
    IF ~exists THEN [app |-> parent, has_entries |-> FALSE]
    ELSE Walk([app |-> parent, has_entries |-> FALSE], Sorted(entries), here)

-----------------------------------------------------------------------------
(* The prompt directories build_cli is run on. *)

\* most entries of a tree, over all its directories
MaxEntries == 3
\* deepest nesting of directories below the root
MaxDepth == 2

Names == {NameOrder[i] : i \in 1..Len(NameOrder)}

\* A tree is listed entry by entry: each entry names its parent (0 for the
\* root, else the index of an earlier entry, a directory), its name and its
\* kind. Entries come parent by parent and, below one parent, in descending
\* name order, so that every tree is listed once.
RECURSIVE Level(_, _)
Level(flat, i) ==
    IF flat[i].parent = 0 THEN 1
    ELSE IF flat[flat[i].parent].parent = 0 THEN 2
    ELSE 1 + Level(flat, flat[i].parent)

EntryOk(flat, i) ==
    /\ flat[i].parent < i
    /\ flat[i].parent > 0 => flat[flat[i].parent].kind = "dir"
    /\ flat[i].kind = "dir" => Level(flat, i) <= MaxDepth
    /\ i > 1 =>
          \/ flat[i - 1].parent < flat[i].parent
          \/ /\ flat[i - 1].parent = flat[i].parent
             /\ Rank(flat[i - 1].name) > Rank(flat[i].name)

\* the entries below parent p, each directory with its own entries
RECURSIVE Children(_, _)
Children(flat, p) ==
    {[name |-> flat[i].name, kind |-> flat[i].kind, children |-> Children(flat, i)] :
         i \in {j \in 1..Len(flat) : flat[j].parent = p}}

\* a prompts directory that does not exist
Missing == [exists |-> FALSE, entries |-> {}]

\* every listing of a tree of exactly n entries: the listings of n - 1
\* entries, each with one more entry that fits
RECURSIVE FlatTrees(_)
FlatTrees(n) ==
    IF n = 0 THEN {<<>>}
    ELSE LET more == {x \in FlatTrees(n - 1)
                            \X [parent : 0..(n - 1), name : Names, kind : {"file", "dir"}] :
                          EntryOk(Append(x[1], x[2]), n)}
         IN  {Append(x[1], x[2]) : x \in more}

\* every listing of a tree of at most max entries
AllFlatTrees(max) == UNION {FlatTrees(n) : n \in 0..max}

\* the prompts directory is missing, or holds a tree of at most MaxEntries
\* entries
IsDirectory(d) ==
    \/ d = Missing
    \/ \E flat \in AllFlatTrees(MaxEntries) : d = [exists |-> TRUE, entries |-> Children(flat, 0)]

-----------------------------------------------------------------------------
(* Start-up: the module-level statements of cli.py, in order. *)

InitTree ==
    /\ NotInvoked
    /\ stage = "import"
    /\ directory = Missing
    /\ app = Typer
    /\ has_entries = FALSE
    /\ reference = ""
    /\ default_repo = ""
    /\ result = NoResult
    /\ resolver = "none"
    /\ raw_params = <<>>
    /\ metadata = EmptyMetadata

\* app.add_typer(review_app, name="review")
AddReviewApp ==
    /\ stage = "import"
    /\ app' = add_typer(app, review_app, "review")
    /\ stage' = "review_added"
    /\ UNCHANGED <<runVars, directory, has_entries, refVars, prmVars>>

\* build_cli(app, PROMPTS_DIR)
BuildCli ==
    /\ stage = "review_added"
    /\ IsDirectory(directory')
    /\ LET built == build_cli(app, directory'.exists, directory'.entries, <<>>) IN
       /\ app' = built.app
       /\ has_entries' = built.has_entries
    /\ stage' = "built"
    /\ UNCHANGED <<runVars, refVars, prmVars>>

\* @app.command("issue")
RegisterIssue ==
    /\ stage = "built"
    /\ app' = command(app, "issue", <<>>, <<"repo", "to", "output">>)
    /\ stage' = "issue_added"
    /\ UNCHANGED <<runVars, directory, has_entries, refVars, prmVars>>

\* @app.command("pr")
RegisterPr ==
    /\ stage = "issue_added"
    /\ app' = command(app, "pr", <<>>, <<"repo", "to", "output">>)
    /\ stage' = "ready"
    /\ UNCHANGED <<runVars, directory, has_entries, refVars, prmVars>>

NextTree == AddReviewApp \/ BuildCli \/ RegisterIssue \/ RegisterPr

SpecTree == InitTree /\ [][NextTree]_vars

-----------------------------------------------------------------------------
(* The front matters a prompt command is synthesized from. *)

\* most parameters a prompt declares
MaxParams == 2

ParamNames == {"flag", "max-len", "n"}

ScalarValues ==
    {None, True, False, Py("int", "0"), Py("int", "3"), Py("float", "1.5"),
     Py("str", ""), Py("str", "x"), Py("list", "[]"), Py("list", "['x']")}

DictValues ==
    {PyDict(<<>>),
     PyDict(<<Item("value", None)>>),
     PyDict(<<Item("value", False)>>),
     PyDict(<<Item("value", Py("str", ""))>>),
     PyDict(<<Item("value", Py("int", "3"))>>),
     PyDict(<<Item("default", True)>>),
     PyDict(<<Item("default", Py("str", "x")), Item("help", Py("str", "h"))>>),
     PyDict(<<Item("description", Py("str", "d"))>>),
     PyDict(<<Item("value", None), Item("default", Py("int", "3"))>>),
     PyDict(<<Item("default", Py("list", "[]")), Item("description", Py("str", "")),
              Item("help", Py("str", "h"))>>)}

RawValues == ScalarValues \cup DictValues

\* a params mapping of at most MaxParams parameters with distinct names, in
\* the order the front matter declares them
IsRawParams(raw) ==
    \E n \in 0..MaxParams :
        \E names \in [1..n -> ParamNames], values \in [1..n -> RawValues] :
            /\ \A i, j \in 1..n : names[i] = names[j] => i = j
            /\ raw = [i \in 1..n |-> [name |-> names[i], value |-> values[i]]]

InitParam ==
    /\ NotInvoked
    /\ stage = "load"
    /\ raw_params = <<>>
    /\ metadata = EmptyMetadata
    /\ app = Typer
    /\ directory = Missing
    /\ has_entries = FALSE
    /\ reference = ""
    /\ default_repo = ""
    /\ result = NoResult
    /\ resolver = "none"

\* metadata = load_prompt_metadata(path)
LoadPromptMetadata ==
    /\ stage = "load"
    /\ IsRawParams(raw_params')
    /\ metadata' = load_prompt_metadata(raw_params')
    /\ stage' = "loaded"
    /\ UNCHANGED <<runVars, app, directory, has_entries, refVars>>

\* register_prompt_command(parent, command_name, path, metadata)
RegisterPromptCommand ==
    /\ stage = "loaded"
    /\ app' = register_prompt_command(app, "a", <<"a.md.jinja">>, metadata)
    /\ stage' = "registered"
    /\ UNCHANGED <<runVars, raw_params, metadata, directory, has_entries, refVars>>

NextParam == LoadPromptMetadata \/ RegisterPromptCommand

SpecParam == InitParam /\ [][NextParam]_vars

-----------------------------------------------------------------------------
(* One invocation of review, issue or pr, or one direct call of            *)
(* render_prompt_template, statement by statement.                         *)

DEFAULT_FORMAT == "commonmark"
DEFAULT_OUTPUT == "-"
\* SUPPORTED_FORMATS with a format added that nothing renders
SUPPORTED_FORMATS_WithPdf == {DEFAULT_FORMAT, "markdown", "pdf"}
SUPPORTED_FORMATS == {DEFAULT_FORMAT, "markdown"}

\* the exit code of the process when this exception leaves the command:
\* typer.Exit carries its own code and is not asked here; typer.BadParameter
\* is a click.UsageError, which the command runner reports and exits with 2;
\* any other exception leaves the interpreter with a traceback and 1
ExitCodeOf(exception) == IF exception = "BadParameter" THEN 2 ELSE 1

\* the invocation ends with this exception, these messages and this code
Ends(exception, code, messages) ==
    /\ pc' = "done"
    /\ raised' = exception
    /\ exit_code' = code
    /\ stderr' = stderr \o messages

\* raise typer.Exit(code=code) after typer.secho(message, err=True)
Exit(code, message) == Ends("Exit", code, <<message>>)

\* the statement goes on to the next one
Goto(next) ==
    /\ pc' = next
    /\ UNCHANGED endVars

-----------------------------------------------------------------------------
(* The arguments and the environment of an invocation. *)

Commands == {"review", "issue", "pr", "render_prompt_template"}
\* the reference arguments: a bare number, the owner/repo#number form, two
\* that match no shape, and a URL that urlparse rejects
RunReferences == {"7", "acme/widgets#45", "word", "", "https://["}
Formats == {DEFAULT_FORMAT, "markdown", "pdf"}
Outputs == {DEFAULT_OUTPUT, "out.md"}
\* --issue of review: not given, or one of these
IssueOptions == {None, Py("str", ""), Py("str", "8"), Py("str", "word")}
\* the return codes of a git or gh process: success, a failure, and the code
\* git ends with on a fatal error
ReturnCodes == {0, 1, 128}
\* what git reports as the branch of origin/HEAD, "" when it reports none
ReportedBranches == {"", "main"}
\* what a template renders to
RenderedTexts == {"", " ", "x", "x\n"}

\* for candidate in ("main", "master", "trunk", "develop")
BranchNames == <<"main", "master", "trunk", "develop">>

IsArgs(c, a) ==
    IF c = "render_prompt_template"
    THEN \E to \in Formats, o \in Outputs :
             a = [reference |-> "", repo |-> "", to |-> to, output |-> o, issue |-> None]
    ELSE \E r \in RunReferences, repo \in Repos, to \in Formats, o \in Outputs,
            i \in IssueOptions :
             /\ c # "review" => i = None
             /\ a = [reference |-> r, repo |-> repo, to |-> to, output |-> o, issue |-> i]

\* the first statement of the command
FirstStatement(c) ==
    CASE c \in {"review", "pr"} -> "parse_pr_reference"
      [] c = "issue" -> "parse_issue_reference"
      [] OTHER -> "render_prompt_template"

InitRun ==
    /\ NotInvoked
    /\ stage = "invoke"
    /\ reference = ""
    /\ default_repo = ""
    /\ result = NoResult
    /\ resolver = "none"
    /\ directory = [exists |-> FALSE, entries |-> {}]
    /\ app = [groups |-> <<>>, commands |-> <<>>, callback |-> FALSE]
    /\ has_entries = FALSE
    /\ raw_params = <<>>
    /\ metadata = [description |-> [t |-> "NoneType", v |-> "None", items |-> <<>>],
                   params |-> <<>>]

\* the command line is parsed and the command's function is called
Invoke ==
    /\ stage = "invoke"
    /\ pc = "start"
    /\ \E c \in Commands :
           /\ invoked' = c
           /\ IsArgs(c, args')
           /\ pc' = FirstStatement(c)
    /\ UNCHANGED <<stage, refVars, treeVars, prmVars, gitVars, outVars, endVars>>

\* what follows a resolver call that returned, or the end of the invocation
\* if it raised
Resolved(next) ==
    IF IsReference(result') THEN Goto(next)
    ELSE Ends(result'.cls, ExitCodeOf(result'.cls), <<result'.message>>)

\* pr_ref = parse_pr_reference(pr, repo) of review,
\* pr_ref = parse_pr_reference(reference, repo) of pr
RunParsePrReference ==
    /\ pc = "parse_pr_reference"
    /\ reference' = args.reference
    /\ default_repo' = args.repo
    /\ result' = parse_pr_reference(reference', default_repo')
    /\ resolver' = "pr"
    /\ Resolved("check_format")
    /\ UNCHANGED <<stage, treeVars, prmVars, invoked, args, gitVars, outVars>>

\* issue_ref = parse_issue_reference(reference, repo) of issue,
\* issue_ref = parse_issue_reference(issue, repo) of review
RunParseIssueReference ==
    /\ pc = "parse_issue_reference"
    /\ reference' = IF invoked = "review" THEN args.issue.v ELSE args.reference
    /\ default_repo' = args.repo
    /\ result' = parse_issue_reference(reference', default_repo')
    /\ resolver' = "issue"
    /\ Resolved(IF invoked = "review" THEN "gh_issue_view" ELSE "check_format")
    /\ UNCHANGED <<stage, treeVars, prmVars, invoked, args, gitVars, outVars>>

\* if to not in SUPPORTED_FORMATS: ... raise typer.Exit(code=1)
CheckFormat ==
    /\ pc = "check_format"
    /\ IF args.to \notin SUPPORTED_FORMATS
       THEN Exit(1, "Unsupported format")
       ELSE Goto(IF invoked = "issue" THEN "gh_issue_view" ELSE "gh_pr_view")
    /\ UNCHANGED <<stage, refVars, treeVars, prmVars, invoked, args, gitVars, outVars>>

\* _run_text_command(command, description): the process is not found, or it
\* runs and returns a code; a code other than 0 is reported and raised
run_text_command(cmdline, next) ==
    /\ \/ /\ Exit(1, "Required command not found")
          /\ UNCHANGED completed
       \/ \E returncode \in ReturnCodes :
              /\ completed' = [args |-> cmdline, returncode |-> returncode]
              /\ IF returncode # 0
                 THEN Exit(returncode, "Command failed")
                 ELSE Goto(next)
    /\ UNCHANGED <<stage, refVars, treeVars, prmVars, invoked, args, outVars,
                   base_branch, candidate, git_ref, candidates, log_command>>

\* "pr_overview": _run_text_command(["gh", "pr", "view", pr_ref.url], ...)
GhPrView ==
    /\ pc = "gh_pr_view"
    /\ run_text_command("gh pr view", "gh_pr_comments")

\* "pr_comments": _run_text_command(["gh", "pr", "view", pr_ref.url, "--comments"], ...)
GhPrComments ==
    /\ pc = "gh_pr_comments"
    /\ run_text_command("gh pr view --comments",
                        IF invoked = "review" THEN "symbolic_ref"
                        ELSE "render_prompt_template")

\* "overview" / "issue_overview": _run_text_command(["gh", "issue", "view", ...], ...)
GhIssueView ==
    /\ pc = "gh_issue_view"
    /\ run_text_command("gh issue view", "gh_issue_comments")

\* "comments" / "issue_comments": _run_text_command([..., "--comments"], ...)
GhIssueComments ==
    /\ pc = "gh_issue_comments"
    /\ run_text_command("gh issue view --comments", "render_prompt_template")

-----------------------------------------------------------------------------
(* _collect_git_log and the probes of _determine_base_branch. *)

\* candidates of _collect_git_log for this base branch ("" for None)
Candidates(branch) ==
    IF branch # ""
    THEN <<"git log --oneline " \o branch \o "..HEAD",
           "git log --oneline origin/" \o branch \o "..HEAD",
           "git log --oneline">>
    ELSE <<"git log --oneline">>

\* _determine_base_branch returns branch; _collect_git_log builds its
\* candidates and starts its loop
Determined(branch) ==
    /\ base_branch' = branch
    /\ candidates' = Candidates(branch)
    /\ log_command' = 1
    /\ Goto("git_log")

\* for candidate in ("main", ...): the loop of _determine_base_branch starts
\* or goes on with this position, and _git_ref_exists(candidate) is called
Probe(i) ==
    /\ candidate' = i
    /\ git_ref' = BranchNames[i]
    /\ Goto("show_ref_heads")
    /\ UNCHANGED <<base_branch, candidates, log_command>>

\* _extract_symbolic_origin_head(): git symbolic-ref, run with check=False
SymbolicRef ==
    /\ pc = "symbolic_ref"
    /\ \/ /\ Exit(1, "Unable to locate git")
          /\ UNCHANGED gitVars
       \/ \E returncode \in ReturnCodes, value \in ReportedBranches :
              /\ completed' = [args |-> "git symbolic-ref", returncode |-> returncode]
              /\ IF returncode = 0 /\ value # ""
                 THEN Determined(value) /\ UNCHANGED <<candidate, git_ref>>
                 ELSE Goto("remote_show")
                      /\ UNCHANGED <<base_branch, candidate, git_ref, candidates, log_command>>
    /\ UNCHANGED <<stage, refVars, treeVars, prmVars, invoked, args, outVars>>

\* _extract_origin_head_from_remote(): git remote show origin, run with check=False
RemoteShow ==
    /\ pc = "remote_show"
    /\ \/ /\ Exit(1, "Unable to locate git")
          /\ UNCHANGED gitVars
       \/ \E returncode \in ReturnCodes, branch \in ReportedBranches :
              /\ completed' = [args |-> "git remote show origin", returncode |-> returncode]
              /\ IF returncode = 0 /\ branch # ""
                 THEN Determined(branch) /\ UNCHANGED <<candidate, git_ref>>
                 ELSE Probe(1)
    /\ UNCHANGED <<stage, refVars, treeVars, prmVars, invoked, args, outVars>>

\* _git_ref_exists(ref) returned exists: the `or` and the loop of
\* _determine_base_branch go on from there
RefExists(exists) ==
    IF exists
    THEN Determined(BranchNames[candidate]) /\ UNCHANGED <<candidate, git_ref>>
    ELSE IF git_ref = BranchNames[candidate]
    THEN /\ git_ref' = "origin/" \o BranchNames[candidate]
         /\ Goto("show_ref_heads")
         /\ UNCHANGED <<base_branch, candidate, candidates, log_command>>
    ELSE IF candidate < Len(BranchNames)
    THEN Probe(candidate + 1)
    ELSE Determined("") /\ UNCHANGED <<candidate, git_ref>>

\* _git_ref_exists(ref): git show-ref refs/heads/{ref}, inside the try
ShowRefHeads ==
    /\ pc = "show_ref_heads"
    /\ \/ /\ Exit(1, "Unable to locate git")
          /\ UNCHANGED gitVars
       \/ \E returncode \in ReturnCodes :
              /\ completed' = [args |-> "git show-ref refs/heads/" \o git_ref,
                               returncode |-> returncode]
              /\ IF returncode = 0
                 THEN RefExists(TRUE)
                 ELSE Goto("show_ref_remotes")
                      /\ UNCHANGED <<base_branch, candidate, git_ref, candidates, log_command>>
    /\ UNCHANGED <<stage, refVars, treeVars, prmVars, invoked, args, outVars>>

\* _git_ref_exists(ref): git show-ref refs/remotes/{ref}, outside the try
ShowRefRemotes ==
    /\ pc = "show_ref_remotes"
    /\ \/ /\ Ends("FileNotFoundError", ExitCodeOf("FileNotFoundError"), <<"Traceback">>)
          /\ UNCHANGED gitVars
       \/ \E returncode \in ReturnCodes :
              /\ completed' = [args |-> "git show-ref refs/remotes/" \o git_ref,
                               returncode |-> returncode]
              /\ RefExists(returncode = 0)
    /\ UNCHANGED <<stage, refVars, treeVars, prmVars, invoked, args, outVars>>

\* the except clause of _collect_git_log going on to the next candidate
\* after any failure, whatever the exit code
Reraise_LastOnly(is_last, code) == is_last

\* if command is candidates[-1] or exit_code != 128: raise
Reraise(is_last, code) == is_last \/ code # 128

\* what follows "git_log": _collect_git_log() in review
AfterGitLog ==
    IF truthy(args.issue) THEN "parse_issue_reference" ELSE "render_prompt_template"

\* one turn of the loop of _collect_git_log:
\* return _run_text_command(command, "collecting git history")
GitLog ==
    /\ pc = "git_log"
    /\ \/ /\ Exit(1, "Required command not found")
          /\ UNCHANGED gitVars
       \/ \E returncode \in ReturnCodes :
              /\ completed' = [args |-> candidates[log_command], returncode |-> returncode]
              /\ IF returncode = 0
                 THEN Goto(AfterGitLog) /\ UNCHANGED log_command
                 ELSE IF Reraise(log_command = Len(candidates), returncode)
                 THEN Exit(returncode, "Command failed") /\ UNCHANGED log_command
                 ELSE /\ stderr' = Append(stderr, "Command failed")
                      /\ log_command' = log_command + 1
                      /\ UNCHANGED <<pc, raised, exit_code>>
              /\ UNCHANGED <<base_branch, candidate, git_ref, candidates>>
    /\ UNCHANGED <<stage, refVars, treeVars, prmVars, invoked, args, outVars>>

-----------------------------------------------------------------------------
(* render_prompt_template. *)

\* if fmt not in SUPPORTED_FORMATS: ... raise typer.Exit(code=1)
RenderPromptTemplate ==
    /\ pc = "render_prompt_template"
    /\ IF args.to \notin SUPPORTED_FORMATS
       THEN Exit(1, "Unsupported format")
       ELSE Goto("prompt_path")
    /\ UNCHANGED <<stage, refVars, treeVars, prmVars, invoked, args, gitVars, outVars>>

\* if not prompt_path.exists(): ... raise typer.Exit(code=1)
PromptPath ==
    /\ pc = "prompt_path"
    /\ \/ Exit(1, "Prompt not found")
       \/ Goto("render")
    /\ UNCHANGED <<stage, refVars, treeVars, prmVars, invoked, args, gitVars, outVars>>

\* rendered = env.from_string(template_str).render(**context), and its
\* except TemplateError
Render ==
    /\ pc = "render"
    /\ \/ /\ Exit(1, "Unable to render template")
          /\ UNCHANGED rendered
       \/ \E text \in RenderedTexts :
              /\ rendered' = <<text>>
              /\ Goto("write")
    /\ UNCHANGED <<stage, refVars, treeVars, prmVars, invoked, args, gitVars,
                   stdout, clipboard, file>>

\* the function returns and the command ends
Returns ==
    /\ pc' = "done"
    /\ raised' = ""
    /\ exit_code' = 0

\* if output == "-": echo and copy to the clipboard; else: write_text
Write ==
    /\ pc = "write"
    /\ IF args.output = "-"
       THEN LET text == IF rendered[1] # "" /\ ~endswith(rendered[1], "\n")
                        THEN rendered[1] \o "\n" ELSE rendered[1]
            IN  /\ rendered' = <<text>>
                /\ stdout' = Append(stdout, text)
                /\ IF strip(text, Whitespace) # ""
                   THEN \/ clipboard' = Append(clipboard, text) /\ UNCHANGED stderr
                        \/ /\ stderr' = Append(stderr, "Unable to copy output to the clipboard")
                           /\ UNCHANGED clipboard
                   ELSE UNCHANGED <<clipboard, stderr>>
                /\ Returns
                /\ UNCHANGED file
       ELSE /\ \/ file' = Append(file, rendered[1]) /\ Returns /\ UNCHANGED stderr
               \/ Exit(1, "Failed to write") /\ UNCHANGED file
            /\ UNCHANGED <<rendered, stdout, clipboard>>
    /\ UNCHANGED <<stage, refVars, treeVars, prmVars, invoked, args, gitVars>>

NextRun ==
    \/ Invoke
    \/ RunParsePrReference
    \/ RunParseIssueReference
    \/ CheckFormat
    \/ GhPrView
    \/ GhPrComments
    \/ GhIssueView
    \/ GhIssueComments
    \/ SymbolicRef
    \/ RemoteShow
    \/ ShowRefHeads
    \/ ShowRefRemotes
    \/ GitLog
    \/ RenderPromptTemplate
    \/ PromptPath
    \/ Render
    \/ Write

SpecRun == InitRun /\ [][NextRun]_vars

-----------------------------------------------------------------------------
(* Properties of the reference resolver. *)

\* the reference as the resolver reads it: without surrounding whitespace
Trimmed(s) == strip(s, Whitespace)

Called == resolver # "none"

\* the non-empty segments of the path of a URL
PathSegments(url) == Segments(urlparse(url).path)

\* C1: whenever a resolver returns a Reference, its number is a non-empty
\* string of decimal digits only.
C1_NumberIsDecimal ==
    IsReference(result) => isdigit(result.number)

\* "owner/name": a "/" with a non-empty owner before it and a non-empty name
\* after it
FullyQualified(repo) ==
    LET i == find(repo, "/", 1) IN i > 1 /\ i < Len(repo)

\* C2: whenever a resolver returns a Reference, its repository is a fully
\* qualified "owner/name" string.
C2_RepositoryFullyQualified ==
    IsReference(result) => FullyQualified(result.repo)

\* C3: a URL reference resolves exactly when its path has at least 4
\* non-empty segments with the kind's marker second to last, to the first two
\* segments joined by "/" and the last segment; every other URL fails with
\* InvalidReference.
C3_UrlForm ==
    (Called /\ IsUrl(Trimmed(reference))) =>
        LET segs == PathSegments(Trimmed(reference))
            n    == Len(segs)
            mark == IF resolver = "pr" THEN {"pull", "pulls"} ELSE {"issue", "issues"}
        IN  IF n >= 4 /\ segs[n - 1] \in mark
            THEN /\ IsReference(result)
                 /\ result.repo = segs[1] \o "/" \o segs[2]
                 /\ result.number = segs[n]
            ELSE result.cls = "BadParameter"

\* the parts of a reference left and right of its first "#", trimmed
LeftOfHash(s) == Trimmed(SubSeq(s, 1, find(s, "#", 1) - 1))
RightOfHash(s) == Trimmed(SubSeq(s, find(s, "#", 1) + 1, Len(s)))

\* C4: a non-URL reference containing "#" is split at its first "#"; the
\* repository is the trimmed left part when that contains "/", the fallback
\* repository otherwise; the number is the trimmed right part without its
\* leading "#" characters, and an empty number fails with InvalidReference.
C4_HashForm ==
    (Called /\ ~IsUrl(Trimmed(reference)) /\ contains(reference, "#")) =>
        LET left   == LeftOfHash(reference)
            number == lstrip(RightOfHash(reference), {"#"})
        IN  IF number = ""
            THEN result.cls = "BadParameter" /\ result.message = "missing number"
            ELSE /\ IsReference(result)
                 /\ result.number = number
                 /\ result.repo = IF contains(left, "/") THEN left ELSE default_repo

\* C4's case: an owner/repo#number reference resolved to its own repository,
\* which is not the fallback
C4_Witness ==
    /\ Called
    /\ reference = "acme/widgets#45"
    /\ IsReference(result)
    /\ result.repo = "acme/widgets" /\ result.repo # default_repo
    /\ result.number = "45"

\* the three accepted shapes, as the specification words them
UrlShape(kind, v) ==
    /\ IsUrl(v)
    /\ LET segs == PathSegments(v) IN
       /\ Len(segs) >= 4
       /\ segs[Len(segs) - 1] \in (IF kind = "pr" THEN {"pull", "pulls"}
                                   ELSE {"issue", "issues"})
HashShape(v) ==
    ~IsUrl(v) /\ contains(v, "#") /\ lstrip(RightOfHash(v), {"#"}) # ""
BareShape(v) ==
    LET d == lstrip(v, {"#"}) IN d # "" /\ \A i \in 1..Len(d) : Char(d, i) \in Digits

\* C5: a reference that matches none of the three shapes fails with
\* InvalidReference, for both resolvers and every fallback repository; so do
\* the empty string, a blank string, a word and the example.com URL.
C5_NoShapeFails ==
    Called =>
        LET v == Trimmed(reference) IN
        /\ (~UrlShape(resolver, v) /\ ~HashShape(v) /\ ~BareShape(v))
               => result.cls = "BadParameter"
        /\ reference \in {"", "   ", "word", "https://example.com/not/a/valid/path"}
               => result.cls = "BadParameter"

\* every order in which the three rules can be tried
RuleOrders ==
    {o \in [1..3 -> {"url", "hash", "bare"}] : {o[i] : i \in 1..3} = {"url", "hash", "bare"}}

Position(o, rule) == CHOOSE i \in 1..3 : o[i] = rule

\* C6 as stated: the outcome of a call is the outcome under every order of
\* trying the three rules.
C6_AnyOrderSameOutcome ==
    Called => \A o \in RuleOrders :
                  result = ParseInOrder(o, resolver, reference, default_repo)

\* C6 as amended: the outcome of a call is the outcome under every order
\* that tries the URL rule before the owner/repo#number rule.
C6_UrlBeforeHashSameOutcome ==
    Called => \A o \in RuleOrders :
                  Position(o, "url") < Position(o, "hash") =>
                      result = ParseInOrder(o, resolver, reference, default_repo)

\* C6's case: a reference both the owner/repo#number rule and the bare-number
\* rule accept, resolved
C6_Witness ==
    /\ Called
    /\ reference = "#7"
    /\ HashRule(resolver, reference, default_repo) # NoMatch
    /\ BareRule(resolver, reference, default_repo) # NoMatch
    /\ IsReference(result)

-----------------------------------------------------------------------------
(* Properties of the command tree. *)

Built == stage \in {"built", "issue_added", "ready"}

\* the groups of a Typer that build_cli attached: those without a callback
\* of their own (review_app has one)
AttachedGroups(typer) ==
    {typer.groups[i] : i \in {j \in 1..Len(typer.groups) : ~typer.groups[j].typer.callback}}

\* the leaf commands at or below a Typer
RECURSIVE Leaves(_)
Leaves(typer) ==
    {typer.commands[i] : i \in 1..Len(typer.commands)}
    \cup UNION {Leaves(typer.groups[i].typer) : i \in 1..Len(typer.groups)}

\* no attached group, at any depth, is without a leaf command below it
RECURSIVE NoEmptyGroups(_)
NoEmptyGroups(typer) ==
    \A g \in AttachedGroups(typer) : Leaves(g.typer) # {} /\ NoEmptyGroups(g.typer)

Hidden(name) == Len(name) > 0 /\ Char(name, 1) = "."

\* the command name a template file derives: its name minus the suffix
DerivedName(name) == SubSeq(name, 1, Len(name) - 9)

IsTemplate(e) ==
    e.kind = "file" /\ Len(e.name) >= 9 /\ SubSeq(e.name, Len(e.name) - 8, Len(e.name)) = ".md.jinja"

\* the qualifying template files at every depth: visible, with the template
\* suffix, not reserved, below visible directories only
RECURSIVE Qualifying(_)
Qualifying(entries) ==
    {e \in entries : ~Hidden(e.name) /\ IsTemplate(e) /\ DerivedName(e.name) # "review"}
    \cup UNION {Qualifying(e.children) : e \in {d \in entries : ~Hidden(d.name) /\ d.kind = "dir"}}

\* the template files with a reserved name, at every depth
RECURSIVE ReservedFiles(_)
ReservedFiles(entries) ==
    {e \in entries : IsTemplate(e) /\ DerivedName(e.name) = "review"}
    \cup UNION {ReservedFiles(e.children) : e \in {d \in entries : d.kind = "dir"}}

\* C7: after build_cli no attached group at any depth is without a leaf
\* command; build_cli returns true exactly when it attached a command or a
\* group; on a tree without qualifying template files at any depth, or a
\* missing root, it attaches nothing and returns false.
C7_NoEmptyGroups ==
    Built =>
        /\ NoEmptyGroups(app)
        /\ stage = "built" =>
               (has_entries <=> (AttachedGroups(app) # {} \/ Len(app.commands) > 0))
        /\ (~directory.exists \/ Qualifying(directory.entries) = {}) =>
               /\ ~has_entries
               /\ AttachedGroups(app) = {}
               /\ stage = "built" => Len(app.commands) = 0

\* C7's case: build_cli has attached a group with a leaf below it and has
\* left out a visible directory that holds no qualifying file
C7_Witness ==
    /\ stage = "built"
    /\ has_entries
    /\ \E g \in AttachedGroups(app) : Leaves(g.typer) # {}
    /\ \E d \in directory.entries :
           /\ d.kind = "dir" /\ ~Hidden(d.name)
           /\ \A g \in AttachedGroups(app) : g.name # d.name

\* no group was attached for a directory whose only template files are
\* reserved ones, at any depth
RECURSIVE ReservedOnlyPruned(_, _)
ReservedOnlyPruned(entries, typer) ==
    \A d \in {e \in entries : e.kind = "dir" /\ ~Hidden(e.name)} :
        LET gs == {g \in AttachedGroups(typer) : g.name = d.name} IN
        /\ (ReservedFiles(d.children) # {} /\ Qualifying(d.children) = {}) => gs = {}
        /\ \A g \in gs : ReservedOnlyPruned(d.children, g.typer)

\* C8: no leaf command is synthesized for a template file whose derived name
\* is reserved, at any depth; such a file does not count as an entry, so a
\* directory whose only qualifying files are reserved is pruned.
C8_ReservedSkipped ==
    Built =>
        /\ \A c \in Leaves(app) :
               /\ c.name \notin {"review"}
               /\ c.file # <<>> => c.file[Len(c.file)] # "review.md.jinja"
        /\ ReservedOnlyPruned(directory.entries, app)
        /\ (directory.exists /\ Qualifying(directory.entries) = {}
              /\ ReservedFiles(directory.entries) # {}) => ~has_entries

\* C8's case: a visible directory held only a reserved template, and
\* build_cli attached other commands but no group for it
C8_Witness ==
    /\ stage = "built"
    /\ has_entries
    /\ \E d \in directory.entries :
           /\ d.kind = "dir" /\ ~Hidden(d.name)
           /\ d.children = {File("review.md.jinja")}
           /\ \A g \in AttachedGroups(app) : g.name # d.name

\* the names registered at one level of a Typer, groups then commands
LevelNames(typer) ==
    [i \in 1..Len(typer.groups) |-> typer.groups[i].name]
    \o [i \in 1..Len(typer.commands) |-> typer.commands[i].name]

RECURSIVE NoDuplicateNames(_)
NoDuplicateNames(typer) ==
    /\ \A i, j \in 1..Len(LevelNames(typer)) :
           LevelNames(typer)[i] = LevelNames(typer)[j] => i = j
    /\ \A i \in 1..Len(typer.groups) : NoDuplicateNames(typer.groups[i].typer)

\* C9: the command tree at start-up has no two commands or groups of the same
\* name at any single level, the built-in review, issue and pr included.
C9_NoDuplicateNames ==
    stage = "ready" => NoDuplicateNames(app)

-----------------------------------------------------------------------------
(* Properties of the parameter schema inference. *)

Required(option) == option.default = Ellipsis

NoDefault(d) ==
    \/ d.t = "NoneType"
    \/ d.t = "str" /\ d.v = ""
    \/ d.t = "list" /\ d.v = "[]"

\* C10: an option is required exactly when its parameter's default is not a
\* boolean and is None, "" or []; a boolean default gives a boolean option
\* that is never required and defaults to that boolean; every other
\* parameter is optional with the declared default.
C10_Requiredness ==
    stage = "registered" =>
        LET options == app.commands[1].options IN
        /\ Len(options) = Len(metadata.params)
        /\ \A i \in 1..Len(options) :
               LET d == metadata.params[i].default
                   o == options[i]
               IN  /\ Required(o) <=> (d.t # "bool" /\ NoDefault(d))
                   /\ d.t = "bool" =>
                          o.annotation = "bool" /\ ~Required(o) /\ o.default = d
                   /\ (d.t # "bool" /\ ~NoDefault(d)) => o.default = d

\* C10's case: a command registered with a required string option (default
\* "") and an optional boolean one
C10_Witness ==
    /\ stage = "registered"
    /\ \E i, j \in 1..Len(metadata.params) :
           /\ metadata.params[i].default = Py("str", "")
           /\ Required(app.commands[1].options[i])
           /\ app.commands[1].options[i].annotation = "str"
           /\ metadata.params[j].default = False
           /\ app.commands[1].options[j].annotation = "bool"
           /\ ~Required(app.commands[1].options[j])

-----------------------------------------------------------------------------
(* Properties of an invocation. *)

\* the invocation has ended
Done == pc = "done"

\* the last message written to stderr is this one
LastMessage(message) == Len(stderr) > 0 /\ stderr[Len(stderr)] = message

\* the output formats the specification supports
SupportedSet == {"commonmark", "markdown"}

\* the invocation ended with UnsupportedFormat
UnsupportedFormat ==
    Done /\ raised = "Exit" /\ exit_code = 1 /\ LastMessage("Unsupported format")

\* the template was rendered, or rendering it was tried and failed
RenderAttempted ==
    \/ rendered # <<>>
    \/ \E i \in DOMAIN stderr : stderr[i] = "Unable to render template"

\* something was written to stdout, the clipboard or a file
OutputWritten == stdout # <<>> \/ clipboard # <<>> \/ file # <<>>

\* the invocation was given a format outside the supported set
BadFormat == invoked # "none" /\ args.to \notin SupportedSet

\* C11 as stated: in every invocation with an output format outside the
\* supported set, nothing is rendered, nothing is written, and the
\* invocation ends with UnsupportedFormat.
C11_EndsWithUnsupportedFormat ==
    BadFormat =>
        /\ ~RenderAttempted
        /\ ~OutputWritten
        /\ Done => UnsupportedFormat

\* the invocation ended with the failure of its resolver call
ResolverFailed ==
    /\ Done
    /\ ~IsReference(result)
    /\ raised = result.cls
    /\ raised \in {"BadParameter", "ValueError"}

\* C11 as amended: in every invocation with an output format outside the
\* supported set, nothing is rendered and nothing is written; the invocation
\* ends with UnsupportedFormat, unless resolving its reference failed first,
\* and then it ends with that failure.
C11_UnsupportedFormatBeforeRendering ==
    BadFormat =>
        /\ ~RenderAttempted
        /\ ~OutputWritten
        /\ Done => IF resolver = "none" \/ IsReference(result)
                   THEN UnsupportedFormat
                   ELSE ResolverFailed

\* review --pr acme/widgets#45 --to pdf ended with UnsupportedFormat
C11_Witness ==
    /\ invoked = "review"
    /\ args.to = "pdf"
    /\ reference = "acme/widgets#45"
    /\ IsReference(result)
    /\ UnsupportedFormat

\* the messages of the failures the user causes
FailureMessages ==
    {"Unsupported format", "Prompt not found", "Unable to render template",
     "Failed to write"}

\* C12: a bad reference, an unsupported format, a missing template, a render
\* error and a write failure each end the invocation, with exit code 1.
C12_UserFailuresExitOne ==
    /\ (\E i \in DOMAIN stderr : stderr[i] \in FailureMessages) => Done /\ exit_code = 1
    /\ (resolver # "none" /\ result.cls = "BadParameter") => Done /\ exit_code = 1

\* the statements that run a git or gh process
ProcessSteps ==
    {"gh_pr_view", "gh_pr_comments", "gh_issue_view", "gh_issue_comments",
     "symbolic_ref", "remote_show", "show_ref_heads", "show_ref_remotes", "git_log"}

\* this step ran a process, which exited with a code other than 0
ProcessFailed ==
    /\ pc \in ProcessSteps
    /\ completed' # completed
    /\ completed'.returncode # 0

\* this step ended the invocation with the code of the process, nothing rendered
TerminalWithItsCode ==
    /\ pc' = "done"
    /\ raised' = "Exit"
    /\ exit_code' = completed'.returncode
    /\ rendered' = <<>>
    /\ stdout' = <<>> /\ clipboard' = <<>> /\ file' = <<>>

\* C13 as stated: whenever a git or gh process of the invocation exits with a
\* code c other than 0, the invocation ends there with exit code c and
\* nothing rendered; no other attempt follows.
C13_EveryProcessFailureTerminal ==
    [][ProcessFailed => TerminalWithItsCode]_vars

\* the process of this step is one whose failure counts: a gh command, the
\* last git log candidate, or a git log candidate that exits with a code
\* other than 128
FailureCounts ==
    \/ pc \in {"gh_pr_view", "gh_pr_comments", "gh_issue_view", "gh_issue_comments"}
    \/ /\ pc = "git_log"
       /\ log_command = Len(candidates) \/ completed'.returncode # 128

\* C13 as amended: whenever a gh process, the last git log candidate, or a
\* git log candidate with a code other than 128 exits with a code c other
\* than 0, the invocation ends there with exit code c and nothing rendered;
\* after a git log candidate before the last that exits with 128 the next
\* candidate is tried, and after a probe of the base branch that exits with
\* a code other than 0 the invocation goes on.
C13_CountedProcessFailureTerminal ==
    [][ProcessFailed =>
          IF FailureCounts THEN TerminalWithItsCode
          ELSE /\ pc' # "done"
               /\ exit_code' = exit_code
               /\ pc = "git_log" => pc' = "git_log" /\ log_command' = log_command + 1]_vars

\* a git log candidate exited with 128 and the next one was tried, and the
\* failure of a later one ended the invocation with its code
C13_Witness ==
    /\ Done
    /\ raised = "Exit"
    /\ log_command > 1
    /\ completed.args = candidates[log_command]
    /\ completed.returncode # 0
    /\ exit_code = completed.returncode
    /\ Len(stderr) = 2

=============================================================================
